---- MODULE Spec2Model ----
(***************************************************************************)
(* A model of fifolock.py: FifoLock objects used by a set of asyncio tasks. *)
(* Every task runs `async with lock(mode): ...` any number of times.       *)
(*                                                                         *)
(* A queue entry is the asyncio.Future created by __aenter__ (an instance  *)
(* of the mode class).  A live task is suspended on at most one such       *)
(* future and a terminated task never creates another, so a queue entry is *)
(* identified by the task that created it.                                 *)
(***************************************************************************)
EXTENDS Integers, Sequences, FiniteSets

\* Number of tasks that use the lock.
NumTasks == 3

\* size of the semaphore class built by semaphore_factory(size).
SemaphoreSize == 2

\* How far below zero the model follows a hold count.
MaxUnmatched == 1

Tasks == 1..NumTasks

\* The lock mode classes of fifolock.py (Semaphore: semaphore_factory's class).
Modes == {"Mutex", "Read", "Write", "Semaphore"}

\* kind of a task that is not inside `async with`.
NoMode == "NoMode"

\* The FifoLock objects.
Locks == {"A", "B"}

\* The lock of the specifications that use one lock.
LockA == "A"

\* lock(mode) called twice gives two _FifoLockContextManager objects with
\* the same fields; the id tells them apart.
ManagerIds == {"cm1", "cm2"}

\* cm of a task that is not inside `async with`.
NoManager == <<>>

VARIABLES
    lock_waiters, \* FifoLock._waiters of each lock: deque of futures,
                  \* leftmost first
    lock_holds,   \* FifoLock._holds of each lock: mode class -> int
                  \* (defaultdict(int))
    fut,          \* state of the future each task created in __aenter__
    kind,         \* the mode class of that future (type(waiter))
    cm,           \* the _FifoLockContextManager each task entered through
    pc,           \* where each task is
    must_cancel   \* asyncio.Task: cancel() was requested and a
                  \* CancelledError is thrown into the task when it next runs

vars == <<lock_waiters, lock_holds, fut, kind, cm, pc, must_cancel>>

\* _waiters and _holds of LockA.
waiters == lock_waiters[LockA]
holds == lock_holds[LockA]

\* Mutant of FifoLock: _holds is one table shared by every FifoLock (a class
\* attribute instead of one made in __init__).
FifoLock_call_shared_holds(l, m, i) ==
    [waiters |-> l, holds |-> LockA, lock_mode_type |-> m, id |-> i]

\* FifoLock.__call__: the context manager object lock l returns for mode m.
\* Its _waiters and _holds are those of l; i is the object's identity.
FifoLock_call(l, m, i) ==
    [waiters |-> l, holds |-> l, lock_mode_type |-> m, id |-> i]

\* Mutant of Mutex.is_compatible: reads the count of another class.
Mutex_is_compatible_wrong_key(h) == h["Write"] = 0

\* Mutex.is_compatible
Mutex_is_compatible(h) == h["Mutex"] = 0

\* Read.is_compatible
Read_is_compatible(h) == h["Write"] = 0

\* Mutant of Write.is_compatible: the Reads held are not looked at.
Write_is_compatible_ignores_read(h) == h["Write"] = 0

\* Write.is_compatible
Write_is_compatible(h) == h["Read"] = 0 /\ h["Write"] = 0

\* Mutant of SemaphoreBase.is_compatible: <= for <.
Semaphore_is_compatible_off_by_one(h) == h["Semaphore"] <= SemaphoreSize

\* SemaphoreBase.is_compatible, cls.size = SemaphoreSize
Semaphore_is_compatible(h) == h["Semaphore"] < SemaphoreSize

\* self._waiters[0].is_compatible(self._holds): dispatch on the class
is_compatible(m, h) ==
    CASE m = "Mutex" -> Mutex_is_compatible(h)
      [] m = "Read" -> Read_is_compatible(h)
      [] m = "Write" -> Write_is_compatible(h)
      [] m = "Semaphore" -> Semaphore_is_compatible(h)

\* w without its i-th entry.
RemoveAt(w, i) == SubSeq(w, 1, i - 1) \o SubSeq(w, i + 1, Len(w))

\* Mutant of _maybe_acquire: the loop grants the first compatible pending
\* request wherever it is in the queue, instead of stopping at the head.
RECURSIVE maybe_acquire_barging(_, _, _, _)
maybe_acquire_barging(w, h, f, k) ==
    LET ok == {i \in 1..Len(w) :
                  f[w[i]] = "pending" /\ is_compatible(k[w[i]], h)}
    IN IF ok = {}
       THEN [waiters |-> w, holds |-> h, fut |-> f]
       ELSE LET i == CHOOSE x \in ok : \A y \in ok : x <= y
            IN maybe_acquire_barging(RemoveAt(w, i),
                                     [h EXCEPT ![k[w[i]]] = @ + 1],
                                     [f EXCEPT ![w[i]] = "result"],
                                     k)

\* Mutant of _maybe_acquire: the head is not asked whether it is cancelled.
RECURSIVE maybe_acquire_no_cancelled_check(_, _, _, _)
maybe_acquire_no_cancelled_check(w, h, f, k) ==
    IF w = <<>>
    THEN [waiters |-> w, holds |-> h, fut |-> f]
    ELSE IF is_compatible(k[Head(w)], h)
    THEN maybe_acquire_no_cancelled_check(Tail(w),
                                          [h EXCEPT ![k[Head(w)]] = @ + 1],
                                          [f EXCEPT ![Head(w)] = "result"],
                                          k)
    ELSE [waiters |-> w, holds |-> h, fut |-> f]

\* Mutant of _maybe_acquire: `if` for `while`, one entry per call.
maybe_acquire_single_pass(w, h, f, k) ==
    IF w = <<>>
    THEN [waiters |-> w, holds |-> h, fut |-> f]
    ELSE IF f[Head(w)] = "cancelled"
    THEN [waiters |-> Tail(w), holds |-> h, fut |-> f]
    ELSE IF is_compatible(k[Head(w)], h)
    THEN [waiters |-> Tail(w),
          holds |-> [h EXCEPT ![k[Head(w)]] = @ + 1],
          fut |-> [f EXCEPT ![Head(w)] = "result"]]
    ELSE [waiters |-> w, holds |-> h, fut |-> f]

\* _maybe_acquire: the loop over the head of the queue.  w, h, f, k are the
\* queue, the holds, the futures' states and the futures' classes; the result
\* is the queue, holds and futures' states when the loop ends.
\* Mutant of _maybe_acquire: the head is granted where it stands
\* (self._waiters[0] is read, popleft is not called) and the loop stops.
maybe_acquire_grant_without_pop(w, h, f, k) ==
    IF w = <<>> THEN [waiters |-> w, holds |-> h, fut |-> f]
    ELSE IF f[Head(w)] = "cancelled"
    THEN [waiters |-> Tail(w), holds |-> h, fut |-> f]
    ELSE IF is_compatible(k[Head(w)], h)
    THEN [waiters |-> w,
          holds |-> [h EXCEPT ![k[Head(w)]] = @ + 1],
          fut |-> [f EXCEPT ![Head(w)] = "result"]]
    ELSE [waiters |-> w, holds |-> h, fut |-> f]

RECURSIVE maybe_acquire(_, _, _, _)
maybe_acquire(w, h, f, k) ==
    IF w = <<>>
    THEN [waiters |-> w, holds |-> h, fut |-> f]
    ELSE IF f[Head(w)] = "cancelled"
    THEN maybe_acquire(Tail(w), h, f, k)
    ELSE IF is_compatible(k[Head(w)], h)
    THEN maybe_acquire(Tail(w),
                       [h EXCEPT ![k[Head(w)]] = @ + 1],
                       [f EXCEPT ![Head(w)] = "result"],
                       k)
    ELSE [waiters |-> w, holds |-> h, fut |-> f]

\* FifoLock.__init__ and the tasks before their first acquire
Init ==
    /\ lock_waiters = [l \in Locks |-> <<>>]
    /\ lock_holds = [l \in Locks |-> [m \in Modes |-> 0]]
    /\ fut = [t \in Tasks |-> "none"]
    /\ kind = [t \in Tasks |-> NoMode]
    /\ cm = [t \in Tasks |-> NoManager]
    /\ pc = [t \in Tasks |-> "idle"]
    /\ must_cancel = [t \in Tasks |-> FALSE]

\* Mutant of the append in __aenter__: the manager keeps one future and
\* appends nothing while that future is still queued for an earlier caller.
append_waiter_shared(c, t) ==
    IF \E i \in 1..Len(lock_waiters[c.waiters]) :
           /\ cm[lock_waiters[c.waiters][i]] = c
           /\ fut[lock_waiters[c.waiters][i]] = "pending"
    THEN lock_waiters[c.waiters]
    ELSE Append(lock_waiters[c.waiters], t)

\* self._waiters.append(lock_mode) in __aenter__ of manager c, called by
\* task t: lock_mode is a future made by this call.
append_waiter(c, t) == Append(lock_waiters[c.waiters], t)

\* Mutant of __aenter__: the await suspends the task even when the loop has
\* already given the future its result, so the task enters the block only
\* at a later step.
aenter_always_suspends(t, c) ==
    /\ pc[t] = "idle"
    /\ LET k == [kind EXCEPT ![t] = c.lock_mode_type]
           r == maybe_acquire(append_waiter(c, t), lock_holds[c.holds],
                              [fut EXCEPT ![t] = "pending"], k)
       IN /\ lock_waiters' = [lock_waiters EXCEPT ![c.waiters] = r.waiters]
          /\ lock_holds' = [lock_holds EXCEPT ![c.holds] = r.holds]
          /\ fut' = r.fut
          /\ kind' = k
          /\ cm' = [cm EXCEPT ![t] = c]
          /\ pc' = [pc EXCEPT ![t] = "awaiting"]
    /\ UNCHANGED must_cancel

\* __aenter__ of manager c up to the await: a new future of c's mode class
\* is appended and the loop runs.  Awaiting a future that already has its
\* result does not suspend, so the task is then inside the block; otherwise
\* it is suspended.
aenter(t, c) ==
    /\ pc[t] = "idle"
    /\ LET k == [kind EXCEPT ![t] = c.lock_mode_type]
           r == maybe_acquire(append_waiter(c, t), lock_holds[c.holds],
                              [fut EXCEPT ![t] = "pending"], k)
       IN /\ lock_waiters' = [lock_waiters EXCEPT ![c.waiters] = r.waiters]
          /\ lock_holds' = [lock_holds EXCEPT ![c.holds] = r.holds]
          /\ fut' = r.fut
          /\ kind' = k
          /\ cm' = [cm EXCEPT ![t] = c]
          /\ pc' = [pc EXCEPT ![t] =
                      IF r.fut[t] = "result" THEN "critical" ELSE "awaiting"]
    /\ UNCHANGED must_cancel

\* Mutant of __aexit__: the hold is given back and the loop is not run.
aexit_without_maybe_acquire(c) ==
    [waiters |-> lock_waiters[c.waiters],
     holds |-> [lock_holds[c.holds] EXCEPT ![c.lock_mode_type] = @ - 1],
     fut |-> fut]

\* The queue, holds and futures after __aexit__ of manager c.
aexit(c) ==
    maybe_acquire(lock_waiters[c.waiters],
                  [lock_holds[c.holds] EXCEPT ![c.lock_mode_type] = @ - 1],
                  fut, kind)

\* The task leaves the `async with` block: __aexit__ of its manager runs, and
\* the task goes on to `to`.  Its future is dropped.
leave(t, to) ==
    LET c == cm[t]
        r == aexit(c)
    IN /\ lock_waiters' = [lock_waiters EXCEPT ![c.waiters] = r.waiters]
       /\ lock_holds' = [lock_holds EXCEPT ![c.holds] = r.holds]
       /\ fut' = [r.fut EXCEPT ![t] = "none"]
       /\ kind' = [kind EXCEPT ![t] = NoMode]
       /\ cm' = [cm EXCEPT ![t] = NoManager]
       /\ pc' = [pc EXCEPT ![t] = to]
       /\ must_cancel' = [must_cancel EXCEPT ![t] = FALSE]

\* Mutant of the await in __aenter__: a CancelledError thrown at the await
\* is swallowed when the future has its result.
resume_swallows_cancel(t) ==
    /\ pc[t] = "awaiting"
    /\ fut[t] = "result"
    /\ pc' = [pc EXCEPT ![t] = "critical"]
    /\ must_cancel' = [must_cancel EXCEPT ![t] = FALSE]
    /\ UNCHANGED <<lock_waiters, lock_holds, fut, kind, cm>>

\* `await lock_mode` returns in a task that was suspended: the future has its
\* result and no cancellation is waiting for the task.
resume(t) ==
    /\ pc[t] = "awaiting"
    /\ fut[t] = "result"
    /\ ~must_cancel[t]
    /\ pc' = [pc EXCEPT ![t] = "critical"]
    /\ UNCHANGED <<lock_waiters, lock_holds, fut, kind, cm, must_cancel>>

\* task.cancel() while the task is suspended on a pending future: asyncio
\* cancels the future the task waits for.  The future stays in the queue.
cancel_pending(t) ==
    /\ pc[t] = "awaiting"
    /\ fut[t] = "pending"
    /\ fut' = [fut EXCEPT ![t] = "cancelled"]
    /\ UNCHANGED <<lock_waiters, lock_holds, kind, cm, pc, must_cancel>>

\* task.cancel() after set_result and before the task has run again: the
\* future is done and cannot be cancelled, so asyncio marks the task and
\* throws CancelledError into it at the await when it runs.
cancel_granted(t) ==
    /\ pc[t] = "awaiting"
    /\ fut[t] = "result"
    /\ ~must_cancel[t]
    /\ must_cancel' = [must_cancel EXCEPT ![t] = TRUE]
    /\ UNCHANGED <<lock_waiters, lock_holds, fut, kind, cm, pc>>

\* task.cancel() while the task is suspended inside the block.
cancel_inside(t) ==
    /\ pc[t] = "critical"
    /\ ~must_cancel[t]
    /\ must_cancel' = [must_cancel EXCEPT ![t] = TRUE]
    /\ UNCHANGED <<lock_waiters, lock_holds, fut, kind, cm, pc>>

\* `await lock_mode` raises CancelledError in the suspended task.  __aenter__
\* has no handler: the error leaves __aenter__, the block is not entered and
\* __aexit__ is not called.  The task ends.
await_cancelled(t) ==
    /\ pc[t] = "awaiting"
    /\ fut[t] = "cancelled" \/ must_cancel[t]
    /\ pc' = [pc EXCEPT ![t] = "cancelled"]
    /\ must_cancel' = [must_cancel EXCEPT ![t] = FALSE]
    /\ UNCHANGED <<lock_waiters, lock_holds, fut, kind, cm>>

\* The block ends normally; the task may use the lock again.
release(t) ==
    /\ pc[t] = "critical"
    /\ ~must_cancel[t]
    /\ leave(t, "idle")

\* The block raises an exception: __aexit__ runs and returns None, so the
\* exception goes on and ends the task.
raise_exception(t) ==
    /\ pc[t] = "critical"
    /\ ~must_cancel[t]
    /\ leave(t, "failed")

\* CancelledError is thrown into the block: __aexit__ runs, the task ends.
cancelled_inside(t) ==
    /\ pc[t] = "critical"
    /\ must_cancel[t]
    /\ leave(t, "cancelled")

\* __aexit__ of manager c called by a task that is not inside a block of c
\* (no __aenter__ before it, or a second __aexit__ after the first): the
\* code is the same two lines, with no check of the count.
aexit_unmatched(t, c) ==
    /\ pc[t] = "idle"
    /\ lock_holds[c.holds][c.lock_mode_type] > -MaxUnmatched
    /\ LET r == aexit(c)
       IN /\ lock_waiters' = [lock_waiters EXCEPT ![c.waiters] = r.waiters]
          /\ lock_holds' = [lock_holds EXCEPT ![c.holds] = r.holds]
          /\ fut' = r.fut
    /\ UNCHANGED <<kind, cm, pc, must_cancel>>

\* lock(m) of the specifications that use one lock and one manager per mode.
lock(m) == FifoLock_call(LockA, m, "cm1")

Next ==
    \E t \in Tasks :
        \/ \E m \in Modes : aenter(t, lock(m))
        \/ resume(t)
        \/ cancel_pending(t)
        \/ cancel_granted(t)
        \/ cancel_inside(t)
        \/ await_cancelled(t)
        \/ release(t)
        \/ raise_exception(t)
        \/ cancelled_inside(t)

Spec == Init /\ [][Next]_vars

\* The lock used by tasks that are never cancelled.
NextNoCancel ==
    \E t \in Tasks :
        \/ \E m \in Modes : aenter(t, lock(m))
        \/ resume(t)
        \/ release(t)
        \/ raise_exception(t)

\* The event loop runs every task that is ready to run, and a task that is
\* inside the block leaves it.
Fairness ==
    \A t \in Tasks :
        /\ WF_vars(resume(t))
        /\ WF_vars(await_cancelled(t))
        /\ WF_vars(release(t) \/ raise_exception(t) \/ cancelled_inside(t))

SpecNoCancel == Init /\ [][NextNoCancel]_vars /\ Fairness

FairSpec == Init /\ [][Next]_vars /\ Fairness

\* Every manager object.
Managers ==
    {FifoLock_call(l, m, i) : l \in Locks, m \in Modes, i \in ManagerIds}

\* One lock, and tasks, never cancelled, that enter through either of two
\* manager objects per mode: the same object may be in use by several tasks
\* at once.
NextReuse ==
    \E t \in Tasks :
        \/ \E m \in Modes : \E i \in ManagerIds :
               aenter(t, FifoLock_call(LockA, m, i))
        \/ resume(t)
        \/ release(t)
        \/ raise_exception(t)

SpecReuse == Init /\ [][NextReuse]_vars

\* The lock with callers, never cancelled, that also release what they do
\* not hold.
NextMisuse ==
    \E t \in Tasks :
        \/ \E m \in Modes : aenter(t, lock(m))
        \/ \E m \in Modes : aexit_unmatched(t, lock(m))
        \/ resume(t)
        \/ release(t)
        \/ raise_exception(t)

SpecMisuse == Init /\ [][NextMisuse]_vars

\* The mode classes the tasks of the two-lock specification use.
TwoLockModes == {"Mutex", "Read"}

\* Two locks: every task picks the lock it uses each time it enters.
NextLocks ==
    \E t \in Tasks :
        \/ \E l \in Locks : \E m \in TwoLockModes :
               aenter(t, FifoLock_call(l, m, "cm1"))
        \/ resume(t)
        \/ cancel_pending(t)
        \/ cancel_granted(t)
        \/ cancel_inside(t)
        \/ await_cancelled(t)
        \/ release(t)
        \/ raise_exception(t)
        \/ cancelled_inside(t)

SpecLocks == Init /\ [][NextLocks]_vars

TypeOK ==
    /\ lock_waiters \in [Locks -> Seq(Tasks)]
    /\ lock_holds \in [Locks -> [Modes -> Int]]
    /\ cm \in [Tasks -> Managers \cup {NoManager}]
    /\ fut \in [Tasks -> {"none", "pending", "result", "cancelled"}]
    /\ kind \in [Tasks -> Modes \cup {NoMode}]
    /\ pc \in [Tasks -> {"idle", "awaiting", "critical", "cancelled", "failed"}]
    /\ must_cancel \in [Tasks -> BOOLEAN]

----------------------------------------------------------------------------
\* What the claims speak of.

\* t is in the queue w.
InSeq(w, t) == \E i \in 1..Len(w) : w[i] = t

\* The requests ahead of t's request in the queue; a task that is about to
\* call __aenter__ has the whole queue ahead of it.
Ahead(t) ==
    IF InSeq(waiters, t)
    THEN {waiters[i] : i \in {j \in 1..Len(waiters) :
                                \E k \in (j + 1)..Len(waiters) : waiters[k] = t}}
    ELSE {waiters[i] : i \in 1..Len(waiters)}

\* s is what is left of w after some leading entries were removed.
IsSuffix(s, w) ==
    /\ Len(s) <= Len(w)
    /\ \A i \in 1..Len(s) : s[i] = w[Len(w) - Len(s) + i]

\* The tasks inside a block entered through lock(m).
Inside(m) == {t \in Tasks : pc[t] = "critical" /\ kind[t] = m}

\* The callers whose request of class m was granted and who have not
\* released: inside the block, or granted and not yet running again.
Granted(m) ==
    {t \in Tasks : /\ kind[t] = m
                   /\ fut[t] = "result"
                   /\ pc[t] \in {"awaiting", "critical"}}

\* C1: at most one task is inside a block entered through lock(Mutex), and
\* no Mutex request is granted while another granted Mutex caller has not
\* released.
MutexExclusion ==
    /\ Cardinality(Inside("Mutex")) <= 1
    /\ Cardinality(Granted("Mutex")) <= 1

\* C1 witness: one task is inside a Mutex block and a second Mutex request
\* waits in the queue.
MutexSecondWaits ==
    \E a, b \in Tasks :
        /\ a \in Inside("Mutex")
        /\ kind[b] = "Mutex" /\ pc[b] = "awaiting" /\ fut[b] = "pending"
        /\ InSeq(waiters, b)

\* C2: in every step, a request that is granted has no request that was
\* ahead of it left in the queue: each of those was granted in the same
\* step at the latest, or removed as cancelled.  The queue only loses
\* entries at its head.
NoBarging ==
    [][ /\ \A t \in Tasks :
              (fut[t] # "result" /\ fut'[t] = "result") =>
                  \A u \in Ahead(t) \ {t} :
                      /\ ~InSeq(waiters', u)
                      /\ fut'[u] \in {"result", "cancelled"}
        /\ \/ IsSuffix(waiters', waiters)
           \/ \E t \in Tasks : IsSuffix(waiters', Append(waiters, t))
      ]_vars

\* C2 witness: a Read is held, a Write waits at the head of the queue and a
\* Read, compatible with the holds, waits behind it.
ReadWaitsBehindWrite ==
    \E r1, w, r2 \in Tasks :
        /\ r1 \in Inside("Read")
        /\ waiters = <<w, r2>>
        /\ kind[w] = "Write" /\ fut[w] = "pending"
        /\ kind[r2] = "Read" /\ fut[r2] = "pending"
        /\ Read_is_compatible(holds)

\* C3: for every mode class, holds equals the number of callers of that
\* class that were granted and have not released, and is never negative.
HoldConservation ==
    \A m \in Modes :
        /\ holds[m] = Cardinality(Granted(m))
        /\ holds[m] >= 0

\* The requests of class m granted in a step.
NewlyGranted(m) ==
    {u \in Tasks : fut[u] # "result" /\ fut'[u] = "result" /\ kind'[u] = m}

\* C4: when a caller whose request was granted ends its acquire with the
\* cancellation, its hold is given back: holds[kind] goes down by one (and
\* up by the requests of that class the loop then grants).
GrantCancelRaceCompensated ==
    [][ \A t \in Tasks :
            (pc[t] = "awaiting" /\ fut[t] = "result" /\ pc'[t] = "cancelled") =>
                holds'[kind[t]] =
                    holds[kind[t]] - 1 + Cardinality(NewlyGranted(kind[t]))
      ]_vars

\* The holders of class m that leave their block in a step.
Leaving(m) ==
    {t \in Tasks : pc[t] = "critical" /\ pc'[t] # "critical" /\ kind[t] = m}

\* C5: a cancelled request is never granted; in the step that removes it
\* from the queue the holds change only by the grants and the release of
\* that step, and the queue that remains keeps its order.
CancelledNeverGranted ==
    [][ \A u \in Tasks :
            fut[u] = "cancelled" =>
                /\ fut'[u] = "cancelled"
                /\ (InSeq(waiters, u) /\ ~InSeq(waiters', u)) =>
                      /\ \A m \in Modes :
                            holds'[m] = holds[m]
                                        + Cardinality(NewlyGranted(m))
                                        - Cardinality(Leaving(m))
                      /\ \/ IsSuffix(waiters', waiters)
                         \/ \E t \in Tasks :
                                IsSuffix(waiters', Append(waiters, t))
      ]_vars

\* C5 witness: Mutex B was cancelled while queued and has been removed from
\* the queue ungranted, and Mutex C, queued behind it, is inside its block.
CancelledSkipped ==
    \E b, c \in Tasks :
        /\ kind[b] = "Mutex" /\ fut[b] = "cancelled" /\ ~InSeq(waiters, b)
        /\ pc[b] = "cancelled"
        /\ c \in Inside("Mutex")
        /\ holds["Mutex"] = 1

\* C6: at most one Write is granted and then no Read is; the same of the
\* tasks inside their blocks and of the hold counts.  So a Write is granted
\* only when every granted Read has released.
ReaderWriterExclusion ==
    /\ Cardinality(Granted("Write")) <= 1
    /\ Granted("Write") # {} => Granted("Read") = {}
    /\ Inside("Write") # {} => Inside("Read") = {}
    /\ holds["Write"] <= 1
    /\ holds["Write"] = 1 => holds["Read"] = 0

\* C6 witness: two Reads are held together and a Write waits for both.
TwoReadsBlockWrite ==
    \E r1, r2, w \in Tasks :
        /\ r1 # r2
        /\ {r1, r2} \subseteq Inside("Read")
        /\ waiters = <<w>> /\ kind[w] = "Write" /\ fut[w] = "pending"

\* C7: never more than SemaphoreSize callers of the semaphore are granted
\* or inside the block, and a semaphore request at the head of the queue
\* waits only while all SemaphoreSize units are held.
SemaphoreCapacity ==
    /\ Cardinality(Granted("Semaphore")) <= SemaphoreSize
    /\ Cardinality(Inside("Semaphore")) <= SemaphoreSize
    /\ holds["Semaphore"] <= SemaphoreSize
    /\ (/\ waiters # <<>>
        /\ kind[Head(waiters)] = "Semaphore"
        /\ fut[Head(waiters)] = "pending") => holds["Semaphore"] = SemaphoreSize

\* C7 witness: SemaphoreSize tasks are inside the semaphore's block and one
\* more semaphore request waits.
SemaphoreFull ==
    /\ Cardinality(Inside("Semaphore")) = SemaphoreSize
    /\ \E t \in Tasks :
           /\ waiters = <<t>>
           /\ kind[t] = "Semaphore" /\ fut[t] = "pending"

\* C8: in every step in which a holder leaves its block, holds of its class
\* goes down by exactly one (and up by the grants of the step), the loop has
\* run (the queue is empty or its head is neither cancelled nor compatible),
\* and a cancellation ends the task as cancelled.
ReleaseOnEveryExit ==
    [][ \A t \in Tasks :
            (pc[t] = "critical" /\ pc'[t] # "critical") =>
                /\ \A m \in Modes :
                      holds'[m] = holds[m]
                                  - (IF m = kind[t] THEN 1 ELSE 0)
                                  + Cardinality(NewlyGranted(m))
                /\ \/ waiters' = <<>>
                   \/ /\ fut'[Head(waiters')] = "pending"
                      /\ ~is_compatible(kind'[Head(waiters')], holds')
                /\ pc'[t] \in {"idle", "failed", "cancelled"}
                /\ must_cancel[t] => pc'[t] = "cancelled"
      ]_vars

\* C8 witness: a task that held the Mutex ended with an exception or a
\* cancellation, and the Mutex request queued behind it is inside its block.
HolderFailedNextInside ==
    \E a, b \in Tasks :
        /\ pc[a] \in {"failed", "cancelled"}
        /\ fut[a] = "none"
        /\ b \in Inside("Mutex")
        /\ holds["Mutex"] = 1

\* C9: with no cancellation, every suspended request is eventually granted.
EveryRequestEventuallyGranted ==
    \A t \in Tasks : (pc[t] = "awaiting") ~> (pc[t] = "critical")

\* C9 witness: a Write waits at the head of the queue behind a held Read,
\* with a later request queued behind it.
WriteWaitsForRead ==
    \E w \in Tasks :
        /\ pc[w] = "awaiting" /\ kind[w] = "Write"
        /\ Len(waiters) = 2 /\ Head(waiters) = w
        /\ holds["Read"] = 1

\* C10: every pending request is eventually granted, unless its caller is
\* cancelled.
ProgressDespiteCancellation ==
    \A t \in Tasks : (fut[t] = "pending") ~> (fut[t] \in {"result", "cancelled"})

\* C11: a caller cancelled while suspended in __aenter__, its request pending
\* or already granted, never gets inside the block: it stays suspended with
\* the cancellation still waiting for it, or its acquire ends cancelled.
CancellationPropagated ==
    [][ \A t \in Tasks :
            (pc[t] = "awaiting" /\ (fut[t] = "cancelled" \/ must_cancel[t])) =>
                /\ pc'[t] \in {"awaiting", "cancelled"}
                /\ pc'[t] = "awaiting" =>
                       (fut'[t] = "cancelled" \/ must_cancel'[t])
      ]_vars

\* C11 witness: one caller ended cancelled with its request still pending
\* when it was cancelled, another with its request already granted.
BothCancellationsEnded ==
    \E a, b \in Tasks :
        /\ pc[a] = "cancelled" /\ fut[a] = "cancelled"
        /\ pc[b] = "cancelled" /\ fut[b] = "result"

\* C12: every __aenter__ ends with the caller inside the block, its request
\* granted and out of the queue, or suspended on a pending request of its
\* own that is the last entry of the queue and occurs there once; the queue,
\* holds and futures after the call are those of the loop run on the queue
\* with that fresh entry appended, whichever manager object was used; and
\* two callers are never both granted the Mutex, through one manager object
\* or through two.
ReuseMakesFreshEntry ==
    /\ [][ \A t \in Tasks :
               (pc[t] = "idle" /\ pc'[t] # "idle") =>
                   /\ \/ /\ pc'[t] = "critical"
                         /\ fut'[t] = "result"
                         /\ ~InSeq(waiters', t)
                      \/ /\ pc'[t] = "awaiting"
                         /\ fut'[t] = "pending"
                         /\ waiters' # <<>>
                         /\ waiters'[Len(waiters')] = t
                         /\ Cardinality({i \in 1..Len(waiters') :
                                            waiters'[i] = t}) = 1
                   /\ LET r == maybe_acquire(Append(waiters, t), holds,
                                             [fut EXCEPT ![t] = "pending"],
                                             kind')
                      IN /\ waiters' = r.waiters
                         /\ holds' = r.holds
                         /\ fut' = r.fut
         ]_vars
    /\ [](\A a, b \in Granted("Mutex") : a = b)

\* C12 witness: two tasks entered through the same lock(Mutex) object; one
\* is inside the block and the other waits in the queue.
SameManagerSecondWaits ==
    \E a, b \in Tasks :
        /\ a # b
        /\ cm[a] = cm[b]
        /\ cm[a] # NoManager
        /\ a \in Inside("Mutex")
        /\ pc[b] = "awaiting" /\ fut[b] = "pending" /\ waiters = <<b>>

\* C13: a release with no matching grant is stopped: it never takes a hold
\* count below zero.
UnmatchedReleaseStopped ==
    \A m \in Modes : holds[m] >= 0

\* The task that takes the step: it calls __aenter__, resumes, leaves its
\* block, is cancelled or ends.
Acting(t) ==
    \/ pc'[t] # pc[t]
    \/ must_cancel'[t] # must_cancel[t]
    \/ fut[t] = "pending" /\ fut'[t] = "cancelled"

\* The lock a task's manager belongs to; no lock for a task with no manager.
LockOf(c) == IF c = NoManager THEN {} ELSE {c.waiters}

\* C14: every lock starts with an empty queue and all-zero holds; a step of
\* a task using one lock changes neither the queue nor the holds of another
\* lock, nor the future or the position of a task using another lock; and
\* on every lock a pending request at the head of the queue is incompatible
\* with the holds of that lock, whatever is held on the other.
LocksIndependent ==
    /\ \A l \in Locks :
           /\ lock_waiters[l] = <<>>
           /\ \A m \in Modes : lock_holds[l][m] = 0
    /\ [][ \A t \in Tasks :
               Acting(t) =>
                   LET mine == LockOf(cm[t]) \cup LockOf(cm'[t])
                   IN /\ \A l \in Locks \ mine :
                             /\ lock_waiters'[l] = lock_waiters[l]
                             /\ lock_holds'[l] = lock_holds[l]
                      /\ \A u \in Tasks :
                             (LockOf(cm[u]) \cap mine = {} /\ u # t) =>
                                 fut'[u] = fut[u] /\ pc'[u] = pc[u]
         ]_vars
    /\ [](\A l \in Locks :
              (/\ lock_waiters[l] # <<>>
               /\ fut[Head(lock_waiters[l])] = "pending") =>
                  ~is_compatible(kind[Head(lock_waiters[l])], lock_holds[l]))

\* C14 witness: the Mutex is held on lock A and on lock B at once.
MutexHeldOnBothLocks ==
    \E a, b \in Tasks :
        /\ pc[a] = "critical" /\ pc[b] = "critical"
        /\ cm[a] = FifoLock_call("A", "Mutex", "cm1")
        /\ cm[b] = FifoLock_call("B", "Mutex", "cm1")

\* The loop has nothing to do on queue w: w is empty, or its head is neither
\* cancelled nor compatible with the holds h.
AtFixedPoint(w, h, f, k) ==
    \/ w = <<>>
    \/ /\ f[Head(w)] = "pending"
       /\ ~is_compatible(k[Head(w)], h)

\* C15: after every step that runs the loop (the queue or the holds
\* change), the queue is empty or its head is a pending request incompatible
\* with the holds; what is left of the queue is a suffix of it; every entry
\* that left it was cancelled or granted; and every request granted in the
\* step is compatible with the holds of the others as they are after the
\* step, so none was granted on counts that an earlier grant of the same
\* pass had made stale.
AdmissionRunsToFixedPoint ==
    [][ (waiters' # waiters \/ holds' # holds) =>
            /\ AtFixedPoint(waiters', holds', fut', kind')
            /\ \/ IsSuffix(waiters', waiters)
               \/ \E t \in Tasks : IsSuffix(waiters', Append(waiters, t))
            /\ \A u \in Tasks :
                   (/\ InSeq(waiters, u) \/ (pc[u] = "idle" /\ pc'[u] # "idle")
                    /\ ~InSeq(waiters', u)) =>
                       fut'[u] \in {"cancelled", "result"}
            /\ \A u \in Tasks :
                   (fut[u] # "result" /\ fut'[u] = "result") =>
                       is_compatible(kind'[u],
                                     [holds' EXCEPT ![kind'[u]] = @ - 1])
      ]_vars

\* C15 witness: two queued Reads were granted together and neither has run
\* yet; nothing is left in the queue.
TwoReadsGrantedTogether ==
    \E r1, r2 \in Tasks :
        /\ r1 # r2
        /\ kind[r1] = "Read" /\ pc[r1] = "awaiting" /\ fut[r1] = "result"
        /\ kind[r2] = "Read" /\ pc[r2] = "awaiting" /\ fut[r2] = "result"
        /\ holds["Read"] = 2
        /\ waiters = <<>>

\* C16: once the acquire of a cancelled queued request has ended, the loop
\* has run: no pending request that is compatible with the holds is left
\* waiting with only such cancelled requests ahead of it.
AdmissionAfterCancellation ==
    \A u \in Tasks :
        (/\ InSeq(waiters, u)
         /\ fut[u] = "pending"
         /\ Ahead(u) # {}
         /\ \A a \in Ahead(u) : fut[a] = "cancelled" /\ pc[a] = "cancelled") =>
            ~is_compatible(kind[u], holds)

\* Running the loop on (w, h, f, k) and then again on what it returned gives
\* what the first run returned.
SecondRunIsNoOp(w, h, f, k) ==
    LET first == maybe_acquire(w, h, f, k)
        second == maybe_acquire(first.waiters, first.holds, first.fut, k)
    IN /\ second.waiters = first.waiters
       /\ second.holds = first.holds
       /\ second.fut = first.fut

\* C17: in every reachable state, a second run of the loop directly after a
\* first changes nothing, for the queue and holds the loop can be called
\* on: as they are, after the append of __aenter__ by any idle task in any
\* mode, and after the decrement of __aexit__ by any task inside its block.
IdempotentAdmission ==
    /\ SecondRunIsNoOp(waiters, holds, fut, kind)
    /\ \A t \in Tasks : \A m \in Modes :
           pc[t] = "idle" =>
               SecondRunIsNoOp(Append(waiters, t), holds,
                               [fut EXCEPT ![t] = "pending"],
                               [kind EXCEPT ![t] = m])
    /\ \A t \in Tasks :
           pc[t] = "critical" =>
               SecondRunIsNoOp(waiters, [holds EXCEPT ![kind[t]] = @ - 1],
                               fut, kind)

\* C17 witness: a state in which a first run of the loop does something: it
\* removes a cancelled head and grants the request behind it.
FirstRunRemovesAndGrants ==
    /\ Len(waiters) >= 2
    /\ fut[waiters[1]] = "cancelled"
    /\ fut[waiters[2]] = "pending"
    /\ maybe_acquire(waiters, holds, fut, kind).fut[waiters[2]] = "result"

\* Task t starts an acquire in this step.
Acquiring(t) == pc[t] = "idle" /\ pc'[t] # "idle"

\* Every request in the queue is cancelled (or the queue is empty).
OnlyCancelledQueued ==
    \A i \in 1..Len(waiters) : fut[waiters[i]] = "cancelled"

\* C18: an acquire that finds only cancelled requests (or none) in the
\* queue and whose mode is compatible with the holds is granted in the
\* acquire step itself: in that one step the hold is counted, the future
\* has its result, the cancelled entries and the request itself are out of
\* the queue, the caller is inside its block without having been suspended,
\* and no other task has acted.  In every acquire the caller is inside its
\* block at the end of the step exactly when its future has its result, and
\* a suspended caller's request is pending and the last of the queue.
ImmediateGrantAtomic ==
    [][\A t \in Tasks :
           Acquiring(t) =>
               /\ (OnlyCancelledQueued /\ is_compatible(kind'[t], holds)) =>
                      /\ pc'[t] = "critical"
                      /\ fut'[t] = "result"
                      /\ holds' = [holds EXCEPT ![kind'[t]] = @ + 1]
                      /\ waiters' = <<>>
                      /\ \A u \in Tasks \ {t} :
                             /\ pc'[u] = pc[u]
                             /\ fut'[u] = fut[u]
                             /\ must_cancel'[u] = must_cancel[u]
               /\ pc'[t] = "critical" <=> fut'[t] = "result"
               /\ pc'[t] = "awaiting" =>
                      /\ fut'[t] = "pending"
                      /\ waiters' # <<>>
                      /\ waiters'[Len(waiters')] = t]_vars

\* C18 witness: two Reads are inside together with an empty queue while a
\* task cancelled in the queue has ended, so an acquire has passed over a
\* cancelled entry and a Read has joined a Read.
ReadJoinsReadPastCancelled ==
    /\ waiters = <<>>
    /\ Cardinality(Inside("Read")) = 2
    /\ holds["Read"] = 2
    /\ \E v \in Tasks : pc[v] = "cancelled" /\ fut[v] = "cancelled"

\* Each request is in the queue at most once, and every request in the queue
\* is pending or cancelled.
QueueEntriesUnresolved ==
    /\ \A i, j \in 1..Len(waiters) : waiters[i] = waiters[j] => i = j
    /\ \A i \in 1..Len(waiters) : fut[waiters[i]] \in {"pending", "cancelled"}

\* One step resolves a future at most once and never puts a request back:
\* a future is given its result only when it is pending (or is made and
\* granted in one acquire), a granted future stays granted until its
\* request has ended, a cancelled future stays cancelled, a request enters
\* the queue only as the new last entry of an acquire, and a request leaves
\* the queue only granted or cancelled.
ResolvedOnceStep ==
    \A t \in Tasks :
        /\ (fut'[t] = "result" /\ fut[t] # "result") =>
               \/ fut[t] = "pending" /\ InSeq(waiters, t)
               \/ fut[t] = "none" /\ pc[t] = "idle" /\ pc'[t] = "critical"
        /\ fut[t] = "result" =>
               \/ fut'[t] = "result"
               \/ fut'[t] = "none" /\ pc[t] = "critical" /\ pc'[t] # "critical"
        /\ fut[t] = "cancelled" => fut'[t] = "cancelled"
        /\ (InSeq(waiters', t) /\ ~InSeq(waiters, t)) =>
               /\ fut[t] = "none" /\ pc[t] = "idle" /\ pc'[t] = "awaiting"
               /\ waiters'[Len(waiters')] = t
        /\ (~InSeq(waiters', t) /\ InSeq(waiters, t)) =>
               fut'[t] \in {"result", "cancelled"}

\* C19: in every reachable state each request is in the queue at most once
\* and every queued request is pending or cancelled, never granted; and in
\* every step the loop resolves only pending futures, each request is
\* granted at most once, and a request removed from the queue is not put
\* back.
QueueEntriesResolvedOnce ==
    /\ []QueueEntriesUnresolved
    /\ [][ResolvedOnceStep]_vars

\* C19 witness: the queue holds a cancelled and a pending request while a
\* request granted earlier, no longer in the queue, is inside its block.
QueueHoldsCancelledAndPending ==
    /\ \E i, j \in 1..Len(waiters) :
           fut[waiters[i]] = "cancelled" /\ fut[waiters[j]] = "pending"
    /\ \E t \in Tasks :
           fut[t] = "result" /\ pc[t] = "critical" /\ ~InSeq(waiters, t)
====
